---- MODULE Spec2Model ----
(***************************************************************************)
(* Model of publish-to-git: the publish workflow of src/publishtogit.ts    *)
(* (main and its helpers) run against a source repository, a clone of the  *)
(* published repository and the origin remote.                             *)
(*                                                                         *)
(* One run of the program is one walk of pc through main().  Subprocesses  *)
(* whose promise main() does not await (the checkout of the development    *)
(* commit) and the members of a Promise.all fan-out are in flight          *)
(* concurrently with main(): each settles in an action of its own.         *)
(*                                                                         *)
(* The library classes the workflow builds on (Validator and GitBranch of  *)
(* validator.ts and gitBranch.ts, and spawn) are modelled as calls of      *)
(* their own in LibSpec, with the variable lib holding the call.           *)
(***************************************************************************)
EXTENDS Naturals, Sequences, FiniteSets, TLC

\* ------------------------------------------------------------------ bounds

\* The number of --tag options on one command line.
MaxTagArgs == 2
\* The number of consecutive runs of the program against the same repositories.
MaxRuns == 2

\* ------------------------------------------------------------- value spaces

\* The names a user gives to --tag.
TagNames == {"rel", "v1.2.3"}
\* package.json's version: declared, or absent (undefined).
NoVersion == "undefined"
Versions == {"1.2.3", NoVersion}
\* The tag names in the order "git tag" lists them.
TagOrder == <<"rel", "v1.2.3", "vundefined">>
AllTags == {TagOrder[i] : i \in 1..Len(TagOrder)}

\* Revisions: <<kind, n>>.  R is the commit checked out in the source
\* repository, M another commit the published repository's default branch
\* may be at, P n the publish commit of run n.
NoRev == <<"none", 0>>
RevR == <<"R", 0>>
RevM == <<"M", 0>>
PubRev(n) == <<"P", n>>

\* The files tracked at the revisions of the published repository, and the
\* files the packager (npm pack) materializes.
TrackedFiles == {"src.ts", "package.json"}
PackFiles == {"index.js", "package.json"}
\* The tracked files whose content differs between R and M.
DiffFiles == {"src.ts"}

TagArgs == UNION {[1..n -> TagNames] : n \in 0..MaxTagArgs}

VARIABLES
    \* the source repository and its package (devRepo, pkg)
    srcModified,      \* devRepo.modifiedFiles()
    srcUntracked,     \* devRepo.untrackedFiles()
    srcVersion,       \* pkg.config.version
    srcTags,          \* devRepo.tags(), as a set
    srcHead,          \* devRepo.currentCommitHash()
    \* the origin remote and the temporary directory
    originTags,       \* tag name -> revision (NoRev: no such tag)
    originAtStart,    \* originTags when this run started
    publishedTags,    \* the --tag names of the earlier runs that succeeded
    \* the platform
    unhandledRejections, \* "warn" (Node < 15) or "throw" (Node >= 15)
    \* the run
    run,              \* the number of this run
    argv,             \* [tag, tagVersion, dryRun]
    pc,               \* main()'s position
    tags,             \* instanceConfig.tags
    err,              \* the error main() rejected with: [kind, names]
    devCommitHash,
    started,          \* the mutating operations this run has issued
    \* publishRepo, the clone
    cloneHead,        \* the revision HEAD is at
    cloneBranch,      \* the branch HEAD is attached to ("" when detached)
    cloneTags,        \* tag name -> revision
    cloneFiles,       \* the files in the working tree
    cloneIndex,       \* the files staged
    commitFiles,      \* the files of the publish commit
    commitParent,     \* the parent of the publish commit
    publishCommit,    \* the publish commit
    \* operations in flight
    checkoutState,    \* publishRepo.checkoutCommit(): idle/inflight/ok/failed
    delState,         \* file -> idle/inflight/ok/failed (deleteTrackedFiles)
    tagState,         \* index of tags -> idle/inflight/ok/failed (createTag)
    pushState,        \* index of tags -> idle/inflight/ok/failed (pushTag)
    pushCount,        \* the pushes issued in this run
    pushed,           \* the push operations issued in this run
    report,           \* the completion message main() prints
    exitCode,         \* the process exit status; NotExited while it runs
    \* the library classes run on their own (Validator, GitBranch, spawn)
    lib               \* the call in progress; [op |-> "none"] in the workflow

envVars == <<srcModified, srcUntracked, srcVersion, srcTags, srcHead,
             unhandledRejections, originAtStart, publishedTags, lib>>
cloneVars == <<cloneHead, cloneBranch, cloneTags, cloneFiles, cloneIndex,
               commitFiles, commitParent, publishCommit>>
asyncVars == <<checkoutState, delState, tagState, pushState, pushCount,
               pushed, report>>
vars == <<envVars, originTags, run, argv, pc, tags, err,
          devCommitHash, started, cloneVars, asyncVars, exitCode>>

NotExited == 99
\* An error: its kind, the tag names its message lists, and the step of main()
\* that threw it.
NoErr == [kind |-> "none", names |-> <<>>, at |-> ""]
Error(k) == [kind |-> k, names |-> <<>>, at |-> ""]

\* ----------------------------------------------------------------- helpers

Range(s) == {s[i] : i \in 1..Len(s)}

NoTagMap == [t \in AllTags |-> NoRev]
TagsOf(m) == {t \in AllTags : m[t] # NoRev}

\* devRepo.tags(): the tag names as a list.
TagList(S) == SelectSeq(TagOrder, LAMBDA t : t \in S)

\* _.intersection(a, b): the values of a that are also in b, in a's order.
Intersection(a, b) == SelectSeq(a, LAMBDA t : t \in Range(b))

\* `v${pkg.config.version}`
VersionTag(v) == "v" \o v

\* [].concat(argv.tag || []) and the pushed version tag.
BuildTags(a, v) ==
    IF a.tagVersion THEN Append(a.tag, VersionTag(v)) ELSE a.tag

\* if (!instanceConfig.pkg.config.version)
HasVersion(v) == v # NoVersion

\* createTag with force: an existing tag is moved.
CanCreateTag_Forced(tagMap, name) == TRUE

\* GitRepo (its source is not part of the files modelled; from its contract):
\* createTag fails if the tag exists, and otherwise sets it to HEAD.
CanCreateTag(tagMap, name) == tagMap[name] = NoRev
CreateTagEffect(tagMap, name, head) == [tagMap EXCEPT ![name] = head]
\* pushTag with force: origin's tag becomes the clone's, whatever it was.
PushTagEffect(origin, tagMap, name) == [origin EXCEPT ![name] = tagMap[name]]
\* clone: the new working copy holds every tag of origin.
ClonedTags(origin) == origin
\* checkoutCommit(target) with HEAD at head ("git checkout <target>"): it is
\* refused when a file that differs between the two commits is staged as
\* deleted; otherwise the files that differ are written anew (a file deleted
\* from the working tree comes back) and the other local changes are kept.
\* pub is the publish commit and pubTree its files.
CanCheckout(index, head, target, pub) ==
    head = target \/ head = pub \/ DiffFiles \subseteq index
CheckedOutFiles(files, head, target, pub, pubTree) ==
    IF head = target THEN files
    ELSE IF head = pub THEN (files \ pubTree) \cup TrackedFiles
    ELSE files \cup DiffFiles

\* publishRepo.currentCommitHash() is not awaited: publishCommitHash is the
\* promise, and its toString() is this text whatever the promise resolves to.
PromiseToString == <<"[object Promise]", 0>>
\* The completion message: one "npm install <url>#<tag>" line per entry of
\* tags, then "npm install <url>#" and publishCommitHash.toString().
NoReport == [installTags |-> <<>>, installCommit |-> NoRev]
DoneMessage(tagSeq) ==
    [installTags |-> tagSeq, installCommit |-> PromiseToString]

\* No library call is modelled in the runs of the workflow.
NoCall == [op |-> "none"]

InFlight(st) == \E i \in DOMAIN st : st[i] = "inflight"
AllOk(st) == \A i \in DOMAIN st : st[i] = "ok"

Running == exitCode = NotExited
Terminal == {"Done", "DryRunStop", "Failed"}

\* main() rejects with error e.  Nothing handles the rejection of the promise
\* main() returns: a platform that throws on an unhandled rejection ends the
\* process there, with status 1.
Reject(e) ==
    /\ pc' = "Failed"
    /\ err' = [e EXCEPT !.at = pc]
    /\ exitCode' = IF unhandledRejections = "throw" THEN 1 ELSE exitCode

\* ------------------------------------------------------------------- Init

FreshRun ==
    /\ pc = "getInstanceConfig"
    /\ tags = <<>>
    /\ err = NoErr
    /\ devCommitHash = NoRev
    /\ started = {}
    /\ cloneHead = NoRev
    /\ cloneBranch = ""
    /\ cloneTags = NoTagMap
    /\ cloneFiles = {}
    /\ cloneIndex = {}
    /\ commitFiles = {}
    /\ commitParent = NoRev
    /\ publishCommit = NoRev
    /\ checkoutState = "idle"
    /\ delState = [f \in TrackedFiles |-> "idle"]
    /\ tagState = <<>>
    /\ pushState = <<>>
    /\ pushCount = 0
    /\ pushed = {}
    /\ report = NoReport
    /\ exitCode = NotExited

Init ==
    /\ srcModified \in SUBSET {"src.ts"}
    /\ srcUntracked \in SUBSET {"notes.txt"}
    /\ srcVersion \in Versions
    /\ srcTags \in SUBSET TagNames
    /\ srcHead = RevR
    /\ originTags \in {[NoTagMap EXCEPT !["rel"] = r] : r \in {NoRev, RevM}}
    /\ originAtStart = originTags
    /\ publishedTags = {}
    /\ unhandledRejections \in {"warn", "throw"}
    /\ run = 1
    /\ argv \in [tag : TagArgs, tagVersion : BOOLEAN, dryRun : BOOLEAN]
    /\ FreshRun
    /\ lib = NoCall

\* --------------------------------------------------------------- Validate

\* getInstanceConfig(argv): the tags of the run, or the error it throws.
GetInstanceConfig ==
    /\ Running /\ pc = "getInstanceConfig"
    /\ LET t == BuildTags(argv, srcVersion) IN
         IF Len(t) = 0
         THEN Reject(Error("NoTags")) /\ UNCHANGED tags
         ELSE tags' = t /\ pc' = "checkInitialConditions"
              /\ UNCHANGED <<err, exitCode>>
    /\ UNCHANGED <<envVars, originTags, run, argv, devCommitHash, started,
                   cloneVars, asyncVars>>

\* checkInitialConditions without its check of the untracked files.
InitialConditionsError_NoUntrackedCheck(modified, untracked, version, existing, requested) ==
    IF Cardinality(modified) > 0 THEN Error("Modified")
    ELSE IF ~HasVersion(version) THEN Error("NoVersion")
    ELSE LET alreadyExist == Intersection(TagList(existing), requested) IN
         IF Len(alreadyExist) > 0
         THEN [kind |-> "TagsExist", names |-> alreadyExist, at |-> ""]
         ELSE NoErr

\* checkInitialConditions listing every requested tag in its message, not
\* the intersection.
InitialConditionsError_NamesRequested(modified, untracked, version, existing, requested) ==
    IF Cardinality(modified) > 0 THEN Error("Modified")
    ELSE IF Cardinality(untracked) > 0 THEN Error("Untracked")
    ELSE IF ~HasVersion(version) THEN Error("NoVersion")
    ELSE LET alreadyExist == Intersection(TagList(existing), requested) IN
         IF Len(alreadyExist) > 0
         THEN [kind |-> "TagsExist", names |-> requested, at |-> ""]
         ELSE NoErr

\* checkInitialConditions without its check of the package's version.
InitialConditionsError_NoVersionCheck(modified, untracked, version, existing, requested) ==
    IF Cardinality(modified) > 0 THEN Error("Modified")
    ELSE IF Cardinality(untracked) > 0 THEN Error("Untracked")
    ELSE LET alreadyExist == Intersection(TagList(existing), requested) IN
         IF Len(alreadyExist) > 0
         THEN [kind |-> "TagsExist", names |-> alreadyExist, at |-> ""]
         ELSE NoErr

\* checkInitialConditions(instanceConfig): the error it throws, NoErr if none.
InitialConditionsError(modified, untracked, version, existing, requested) ==
    IF Cardinality(modified) > 0 THEN Error("Modified")
    ELSE IF Cardinality(untracked) > 0 THEN Error("Untracked")
    ELSE IF ~HasVersion(version) THEN Error("NoVersion")
    ELSE LET alreadyExist == Intersection(TagList(existing), requested) IN
         IF Len(alreadyExist) > 0
         THEN [kind |-> "TagsExist", names |-> alreadyExist, at |-> ""]
         ELSE NoErr

CheckInitialConditions ==
    /\ Running /\ pc = "checkInitialConditions"
    /\ LET e == InitialConditionsError(srcModified, srcUntracked, srcVersion,
                                       srcTags, tags) IN
         IF e # NoErr
         THEN Reject(e)
         ELSE pc' = "currentCommitHash" /\ UNCHANGED <<err, exitCode>>
    /\ UNCHANGED <<envVars, originTags, run, argv, tags, devCommitHash,
                   started, cloneVars, asyncVars>>

\* ------------------------------------------------------------------ Clone

\* devRepo.currentCommitHash(), then publishDir.deleteSync().
DeletePublishDir ==
    /\ Running /\ pc = "currentCommitHash"
    /\ devCommitHash' = srcHead
    /\ started' = started \cup {"deleteSync"}
    /\ pc' = "clone"
    /\ UNCHANGED <<envVars, originTags, run, argv, tags, err, cloneVars,
                   asyncVars, exitCode>>

\* Url.fromString() gives nothing for the package's repository url.
CloneInvalidUrl ==
    /\ Running /\ pc = "clone"
    /\ Reject(Error("InvalidUrl"))
    /\ UNCHANGED <<envVars, originTags, run, argv, tags, devCommitHash,
                   started, cloneVars, asyncVars>>

\* GitRepo.clone(repoUrl, tmpDir): the clone holds origin's tags and has
\* origin's default branch checked out.
CloneOk ==
    /\ Running /\ pc = "clone"
    /\ started' = started \cup {"clone"}
    /\ cloneHead' \in {RevR, RevM}
    /\ cloneBranch' = "master"
    /\ cloneTags' = ClonedTags(originTags)
    /\ cloneFiles' = TrackedFiles
    /\ cloneIndex' = TrackedFiles
    /\ pc' = "checkoutCommit"
    /\ UNCHANGED <<envVars, originTags, run, argv, tags, err, devCommitHash,
                   commitFiles, commitParent, publishCommit, asyncVars,
                   exitCode>>

CloneFail ==
    /\ Running /\ pc = "clone"
    /\ started' = started \cup {"clone"}
    /\ Reject(Error("ProcessError"))
    /\ UNCHANGED <<envVars, originTags, run, argv, tags, devCommitHash,
                   cloneVars, asyncVars>>

\* ------------------------------------------------------- CheckoutRevision

\* publishRepo.checkoutCommit(devCommitHash): the subprocess is started and
\* main() goes on without awaiting it.
CheckoutCommit ==
    /\ Running /\ pc = "checkoutCommit"
    /\ checkoutState' = "inflight"
    /\ started' = started \cup {"checkoutCommit"}
    /\ pc' = "createBranch"
    /\ UNCHANGED <<envVars, originTags, run, argv, tags, err, devCommitHash,
                   cloneVars, delState, tagState, pushState, pushCount, pushed,
                   report,
                   exitCode>>

\* The checkout subprocess ends: HEAD is detached at the commit.
CheckoutCommitOk ==
    /\ checkoutState = "inflight"
    /\ CanCheckout(cloneIndex, cloneHead, devCommitHash, publishCommit)
    /\ checkoutState' = "ok"
    /\ cloneHead' = devCommitHash
    /\ cloneBranch' = ""
    /\ cloneFiles' = CheckedOutFiles(cloneFiles, cloneHead, devCommitHash,
                                     publishCommit, commitFiles)
    /\ cloneIndex' = CheckedOutFiles(cloneIndex, cloneHead, devCommitHash,
                                     publishCommit, commitFiles)
    /\ UNCHANGED <<envVars, originTags, run, argv, pc, tags, err,
                   devCommitHash, started, cloneTags,
                   commitFiles, commitParent, publishCommit, delState,
                   tagState, pushState, pushCount, pushed,
                   report, exitCode>>

\* The checkout subprocess fails: its promise rejects and nothing handles it.
CheckoutCommitFail ==
    /\ checkoutState = "inflight"
    /\ checkoutState' = "failed"
    /\ exitCode' = IF Running /\ unhandledRejections = "throw"
                   THEN 1 ELSE exitCode
    /\ UNCHANGED <<envVars, originTags, run, argv, pc, tags, err,
                   devCommitHash, started, cloneVars, delState, tagState,
                   pushState, pushCount, pushed, report>>

\* ------------------------------------------------------- CreateTempBranch

\* GitBranch.create(repo, tmpBranchName): the name is valid.
CreateBranchOk ==
    /\ Running /\ pc = "createBranch"
    /\ pc' = "checkoutBranch"
    /\ UNCHANGED <<envVars, originTags, run, argv, tags, err, devCommitHash,
                   started, cloneVars, asyncVars, exitCode>>

\* GitBranch.create(repo, tmpBranchName): the name is invalid.
CreateBranchInvalid ==
    /\ Running /\ pc = "createBranch"
    /\ Reject(Error("InvalidBranchName"))
    /\ UNCHANGED <<envVars, originTags, run, argv, tags, devCommitHash,
                   started, cloneVars, asyncVars>>

TempBranch == "publishtogit"

\* repo.checkoutBranch(tmpBranch, true)
CheckoutBranchOk ==
    /\ Running /\ pc = "checkoutBranch"
    /\ started' = started \cup {"branch"}
    /\ cloneBranch' = TempBranch
    /\ pc' = "deleteTrackedFiles"
    /\ UNCHANGED <<envVars, originTags, run, argv, tags, err, devCommitHash,
                   cloneHead, cloneTags, cloneFiles, cloneIndex, commitFiles,
                   commitParent, publishCommit, asyncVars, exitCode>>

CheckoutBranchFail ==
    /\ Running /\ pc = "checkoutBranch"
    /\ started' = started \cup {"branch"}
    /\ Reject(Error("ProcessError"))
    /\ UNCHANGED <<envVars, originTags, run, argv, tags, devCommitHash,
                   cloneVars, asyncVars>>

\* ------------------------------------------------------------------ Purge

\* deleteTrackedFiles(repo): repo.files() and one delete per file, launched
\* together.
DeleteTrackedFiles ==
    /\ Running /\ pc = "deleteTrackedFiles"
    /\ started' = started \cup {"delete"}
    /\ delState' = [f \in TrackedFiles |->
                      IF f \in cloneIndex THEN "inflight" ELSE "idle"]
    /\ pc' = IF cloneIndex = {} THEN "prune" ELSE "awaitDelete"
    /\ UNCHANGED <<envVars, originTags, run, argv, tags, err, devCommitHash,
                   cloneVars, checkoutState, tagState, pushState, pushCount,
                   pushed,
                   report,
                   exitCode>>

\* One curFile.delete() ends; Promise.all resolves with the last one.
DeleteFileOk(f) ==
    /\ Running /\ delState[f] = "inflight"
    /\ delState' = [delState EXCEPT ![f] = "ok"]
    /\ cloneFiles' = cloneFiles \ {f}
    /\ pc' = IF pc = "awaitDelete"
                /\ \A g \in TrackedFiles : delState'[g] \in {"ok", "idle"}
             THEN "prune" ELSE pc
    /\ UNCHANGED <<envVars, originTags, run, argv, tags, err, devCommitHash,
                   started, cloneHead, cloneBranch, cloneTags, cloneIndex,
                   commitFiles, commitParent, publishCommit, checkoutState,
                   tagState, pushState, pushCount, pushed,
                   report, exitCode>>

\* One curFile.delete() fails; Promise.all rejects with the first failure.
DeleteFileFail(f) ==
    /\ Running /\ delState[f] = "inflight"
    /\ delState' = [delState EXCEPT ![f] = "failed"]
    /\ IF pc = "awaitDelete"
       THEN Reject(Error("DeleteError"))
       ELSE UNCHANGED <<pc, err, exitCode>>
    /\ UNCHANGED <<envVars, originTags, run, argv, tags, devCommitHash,
                   started, cloneVars, checkoutState, tagState, pushState,
                   pushCount, pushed, report>>

\* publishRepo.directory.prune(): the empty directories go; no file does.
Prune ==
    /\ Running /\ pc = "prune"
    /\ pc' = "publish"
    /\ UNCHANGED <<envVars, originTags, run, argv, tags, err, devCommitHash,
                   started, cloneVars, asyncVars, exitCode>>

\* -------------------------------------------------------------- Republish

\* The packager leaving its files in the source directory as well.
PublishOk_WritesSource ==
    /\ Running /\ pc = "publish"
    /\ started' = started \cup {"publish"}
    /\ cloneFiles' = cloneFiles \cup PackFiles
    /\ srcUntracked' = srcUntracked \cup {"index.js"}
    /\ pc' = "stageAll"
    /\ UNCHANGED <<srcModified, srcVersion, srcTags, srcHead,
                   unhandledRejections, originAtStart, publishedTags, lib,
                   originTags, run, argv, tags, err, devCommitHash,
                   cloneHead, cloneBranch, cloneTags, cloneIndex, commitFiles,
                   commitParent, publishCommit, asyncVars, exitCode>>

\* instanceConfig.pkg.publish(publishDir, false): the packaged files are
\* written into the clone's directory (the packager's source is not part of
\* the files modelled; from its contract).
PublishOk ==
    /\ Running /\ pc = "publish"
    /\ started' = started \cup {"publish"}
    /\ cloneFiles' = cloneFiles \cup PackFiles
    /\ pc' = "stageAll"
    /\ UNCHANGED <<envVars, originTags, run, argv, tags, err, devCommitHash,
                   cloneHead, cloneBranch, cloneTags, cloneIndex, commitFiles,
                   commitParent, publishCommit, asyncVars, exitCode>>

PublishFail ==
    /\ Running /\ pc = "publish"
    /\ started' = started \cup {"publish"}
    /\ Reject(Error("ProcessError"))
    /\ UNCHANGED <<envVars, originTags, run, argv, tags, devCommitHash,
                   cloneVars, asyncVars>>

\* ----------------------------------------------------------------- Commit

\* publishRepo.stageAll()
StageAllOk ==
    /\ Running /\ pc = "stageAll"
    /\ started' = started \cup {"stage"}
    /\ cloneIndex' = cloneFiles
    /\ pc' = "commit"
    /\ UNCHANGED <<envVars, originTags, run, argv, tags, err, devCommitHash,
                   cloneHead, cloneBranch, cloneTags, cloneFiles, commitFiles,
                   commitParent, publishCommit, asyncVars, exitCode>>

StageAllFail ==
    /\ Running /\ pc = "stageAll"
    /\ started' = started \cup {"stage"}
    /\ Reject(Error("ProcessError"))
    /\ UNCHANGED <<envVars, originTags, run, argv, tags, devCommitHash,
                   cloneVars, asyncVars>>

\* publishRepo.commit("Published using publish-to-git."): a new commit on
\* top of HEAD; HEAD moves to it.
CommitOk ==
    /\ Running /\ pc = "commit"
    /\ started' = started \cup {"commit"}
    /\ publishCommit' = PubRev(run)
    /\ commitParent' = cloneHead
    /\ commitFiles' = cloneIndex
    /\ cloneHead' = PubRev(run)
    /\ pc' = "createTags"
    /\ UNCHANGED <<envVars, originTags, run, argv, tags, err, devCommitHash,
                   cloneBranch, cloneTags, cloneFiles, cloneIndex, asyncVars,
                   exitCode>>

CommitFail ==
    /\ Running /\ pc = "commit"
    /\ started' = started \cup {"commit"}
    /\ Reject(Error("ProcessError"))
    /\ UNCHANGED <<envVars, originTags, run, argv, tags, devCommitHash,
                   cloneVars, asyncVars>>

\* -------------------------------------------------------------------- Tag

\* Promise.all(_.map(instanceConfig.tags, createTag)): one subprocess per
\* entry of tags, launched together.
CreateTags ==
    /\ Running /\ pc = "createTags"
    /\ started' = started \cup {"tag"}
    /\ tagState' = [i \in 1..Len(tags) |-> "inflight"]
    /\ pc' = "awaitTags"
    /\ UNCHANGED <<envVars, originTags, run, argv, tags, err, devCommitHash,
                   cloneVars, checkoutState, delState, pushState, pushCount,
                   pushed,
                   report,
                   exitCode>>

\* The dry-run test left out: the run always goes on to push.
AfterTags_IgnoresDryRun(dryRun) == "pushTags"

\* if (instanceConfig.dryRun) return; otherwise go on to push.
AfterTags(dryRun) == IF dryRun THEN "DryRunStop" ELSE "pushTags"

\* createTag chained with the push of the tag it created.
CreateTagOk_PushesEagerly(i) ==
    /\ tagState[i] = "inflight"
    /\ CanCreateTag(cloneTags, tags[i])
    /\ tagState' = [tagState EXCEPT ![i] = "ok"]
    /\ cloneTags' = CreateTagEffect(cloneTags, tags[i], cloneHead)
    /\ originTags' = PushTagEffect(originTags, cloneTags', tags[i])
    /\ pc' = IF Running /\ pc = "awaitTags" /\ AllOk(tagState')
             THEN AfterTags(argv.dryRun) ELSE pc
    /\ UNCHANGED <<envVars, run, argv, tags, err, devCommitHash,
                   started, cloneHead, cloneBranch, cloneFiles, cloneIndex,
                   commitFiles, commitParent, publishCommit, checkoutState,
                   delState, pushState, pushCount, pushed,
                   report, exitCode>>

\* publishRepo.createTag(curTagName, "", false) ends: the tag is created at
\* HEAD.  Promise.all resolves with the last one.
CreateTagOk(i) ==
    /\ tagState[i] = "inflight"
    /\ CanCreateTag(cloneTags, tags[i])
    /\ tagState' = [tagState EXCEPT ![i] = "ok"]
    /\ cloneTags' = CreateTagEffect(cloneTags, tags[i], cloneHead)
    /\ pc' = IF Running /\ pc = "awaitTags" /\ AllOk(tagState')
             THEN AfterTags(argv.dryRun) ELSE pc
    /\ UNCHANGED <<envVars, originTags, run, argv, tags, err, devCommitHash,
                   started, cloneHead, cloneBranch, cloneFiles, cloneIndex,
                   commitFiles, commitParent, publishCommit, checkoutState,
                   delState, pushState, pushCount, pushed,
                   report, exitCode>>

\* createTag fails (the tag exists, or the subprocess fails); Promise.all
\* rejects with the first failure and the other subprocesses go on.
CreateTagFail(i) ==
    /\ tagState[i] = "inflight"
    /\ tagState' = [tagState EXCEPT ![i] = "failed"]
    /\ IF Running /\ pc = "awaitTags"
       THEN Reject(Error("ProcessError"))
       ELSE UNCHANGED <<pc, err, exitCode>>
    /\ UNCHANGED <<envVars, originTags, run, argv, tags, devCommitHash,
                   started, cloneVars, checkoutState, delState, pushState,
                   pushCount, pushed, report>>

\* ------------------------------------------------------------------- Push

\* publishRepo.pushTag(curTagName, "origin", true) as a push operation: the
\* ref it names, the remote and the force flag.
PushTagOp(name) ==
    [kind |-> "tag", name |-> name, remote |-> "origin", force |-> TRUE]

\* The push step pushing the temporary branch along with the tags.
PushTags_PushesBranch ==
    /\ Running /\ pc = "pushTags"
    /\ started' = started \cup {"push"}
    /\ pushState' = [i \in 1..Len(tags) |-> "inflight"]
    /\ pushCount' = pushCount + Len(tags)
    /\ pushed' = pushed \cup {PushTagOp(tags[i]) : i \in 1..Len(tags)}
                        \cup {[kind |-> "branch", name |-> TempBranch,
                                remote |-> "origin", force |-> FALSE]}
    /\ pc' = "awaitPush"
    /\ UNCHANGED <<envVars, originTags, run, argv, tags, err, devCommitHash,
                   cloneVars, checkoutState, delState, tagState, report,
                   exitCode>>

\* Promise.all(_.map(instanceConfig.tags, pushTag)): one push per entry of
\* tags, launched together.
PushTags ==
    /\ Running /\ pc = "pushTags"
    /\ started' = started \cup {"push"}
    /\ pushState' = [i \in 1..Len(tags) |-> "inflight"]
    /\ pushCount' = pushCount + Len(tags)
    /\ pushed' = pushed \cup {PushTagOp(tags[i]) : i \in 1..Len(tags)}
    /\ pc' = "awaitPush"
    /\ UNCHANGED <<envVars, originTags, run, argv, tags, err, devCommitHash,
                   cloneVars, checkoutState, delState, tagState, report,
                   exitCode>>

\* publishRepo.pushTag(curTagName, "origin", true) ends: origin's tag is set,
\* forced, to the clone's.
PushTagOk(i) ==
    /\ pushState[i] = "inflight"
    /\ cloneTags[tags[i]] # NoRev
    /\ pushState' = [pushState EXCEPT ![i] = "ok"]
    /\ originTags' = PushTagEffect(originTags, cloneTags, tags[i])
    /\ pc' = IF Running /\ pc = "awaitPush" /\ AllOk(pushState')
             THEN "Done" ELSE pc
    /\ report' = IF pc' = "Done" /\ pc # "Done"
                 THEN DoneMessage(tags) ELSE report
    /\ UNCHANGED <<envVars, run, argv, tags, err, devCommitHash, started,
                   cloneVars, checkoutState, delState, tagState, pushCount,
                   pushed,
                   exitCode>>

\* A failed push that undoes the pushes of its siblings.
PushTagFail_RollsBack(i) ==
    /\ pushState[i] = "inflight"
    /\ pushState' = [pushState EXCEPT ![i] = "failed"]
    /\ originTags' = originAtStart
    /\ IF Running /\ pc = "awaitPush"
       THEN Reject(Error("ProcessError"))
       ELSE UNCHANGED <<pc, err, exitCode>>
    /\ UNCHANGED <<envVars, run, argv, tags, devCommitHash,
                   started, cloneVars, checkoutState, delState, tagState,
                   pushCount, pushed, report>>

\* publishRepo.pushTag(curTagName, "origin", true) fails; Promise.all rejects
\* with the first failure and leaves the other pushes alone.
PushTagFail(i) ==
    /\ pushState[i] = "inflight"
    /\ pushState' = [pushState EXCEPT ![i] = "failed"]
    /\ IF Running /\ pc = "awaitPush"
       THEN Reject(Error("ProcessError"))
       ELSE UNCHANGED <<pc, err, exitCode>>
    /\ UNCHANGED <<envVars, originTags, run, argv, tags, devCommitHash,
                   started, cloneVars, checkoutState, delState, tagState,
                   pushCount, pushed, report>>

\* ------------------------------------------------------------------- Exit

ChildInFlight ==
    \/ checkoutState = "inflight"
    \/ InFlight(delState) \/ InFlight(tagState) \/ InFlight(pushState)

\* main() has settled and no subprocess is left: the process ends.  Nothing
\* sets an exit status, so it is 0 (a platform that throws on an unhandled
\* rejection has ended the process before, in Reject).
Exit ==
    /\ Running /\ pc \in Terminal /\ ~ChildInFlight
    /\ exitCode' = 0
    /\ UNCHANGED <<envVars, originTags, run, argv, pc, tags, err,
                   devCommitHash, started, cloneVars, asyncVars>>

\* The program is run again, against the same repositories and origin.
NewRun ==
    /\ ~Running /\ ~ChildInFlight /\ run < MaxRuns
    /\ run' = run + 1
    /\ argv' \in [tag : TagArgs, tagVersion : BOOLEAN, dryRun : BOOLEAN]
    /\ pc' = "getInstanceConfig"
    /\ tags' = <<>>
    /\ err' = NoErr
    /\ devCommitHash' = NoRev
    /\ started' = {}
    /\ cloneHead' = NoRev
    /\ cloneBranch' = ""
    /\ cloneTags' = NoTagMap
    /\ cloneFiles' = {}
    /\ cloneIndex' = {}
    /\ commitFiles' = {}
    /\ commitParent' = NoRev
    /\ publishCommit' = NoRev
    /\ checkoutState' = "idle"
    /\ delState' = [f \in TrackedFiles |-> "idle"]
    /\ tagState' = <<>>
    /\ pushState' = <<>>
    /\ pushCount' = 0
    /\ pushed' = {}
    /\ report' = NoReport
    /\ exitCode' = NotExited
    /\ originAtStart' = originTags
    /\ publishedTags' = IF pc = "Done" /\ exitCode = 0 /\ checkoutState = "ok"
                        THEN publishedTags \cup Range(argv.tag)
                        ELSE publishedTags
    /\ UNCHANGED <<srcModified, srcUntracked, srcVersion, srcTags, srcHead,
                   unhandledRejections, originTags, lib>>

\* ------------------------------------------------------------------- Spec

Next ==
    \/ GetInstanceConfig
    \/ CheckInitialConditions
    \/ DeletePublishDir
    \/ CloneInvalidUrl
    \/ CloneOk
    \/ CloneFail
    \/ CheckoutCommit
    \/ CheckoutCommitOk
    \/ CheckoutCommitFail
    \/ CreateBranchOk
    \/ CreateBranchInvalid
    \/ CheckoutBranchOk
    \/ CheckoutBranchFail
    \/ DeleteTrackedFiles
    \/ \E f \in TrackedFiles : DeleteFileOk(f)
    \/ \E f \in TrackedFiles : DeleteFileFail(f)
    \/ Prune
    \/ PublishOk
    \/ PublishFail
    \/ StageAllOk
    \/ StageAllFail
    \/ CommitOk
    \/ CommitFail
    \/ CreateTags
    \/ \E i \in DOMAIN tagState : CreateTagOk(i)
    \/ \E i \in DOMAIN tagState : CreateTagFail(i)
    \/ PushTags
    \/ \E i \in DOMAIN pushState : PushTagOk(i)
    \/ \E i \in DOMAIN pushState : PushTagFail(i)
    \/ Exit

Spec == Init /\ [][Next]_vars

\* The program run up to MaxRuns times in a row.
RerunNext == Next \/ NewRun

RerunSpec == Init /\ [][RerunNext]_vars

\* ----------------------------------------------------------------- Claims

\* The tag set the command line asks for.
Requested == Range(BuildTags(argv, srcVersion))
Dirty == srcModified # {} \/ srcUntracked # {}
\* main() is in Validate (getInstanceConfig, checkInitialConditions).
ValidatePc == {"getInstanceConfig", "checkInitialConditions"}
\* The run has not got past Validate: it is in it, or was rejected in it,
\* and has issued no mutating operation.
HeldInValidate ==
    /\ pc \in ValidatePc \cup {"Failed"}
    /\ pc = "Failed" => err.at \in ValidatePc
    /\ started = {}
    /\ ~Running => pc = "Failed"
\* Nothing has been mutated: no clone, no commit, no tag, no push.
NothingMutated ==
    /\ started = {}
    /\ cloneHead = NoRev /\ cloneTags = NoTagMap /\ cloneFiles = {}
    /\ publishCommit = NoRev
    /\ pushCount = 0 /\ originTags = originAtStart
\* The positions of main() before the pushes are launched.
PrePushPc ==
    ValidatePc \cup {"currentCommitHash", "clone", "checkoutCommit",
                     "createBranch", "checkoutBranch", "deleteTrackedFiles",
                     "awaitDelete", "prune", "publish", "stageAll", "commit",
                     "createTags", "awaitTags", "pushTags"}
\* A step of the workflow has failed.
StepFailed == pc = "Failed" \/ checkoutState = "failed"

\* C1: a source repository with a modified or an untracked file never gets
\* past Validate: the run is rejected there (with the error of an earlier or
\* of the dirty-tree check), and neither the deletion of the destination
\* directory nor the clone has been started.
C1_DirtyFailsInValidate ==
    Dirty =>
      /\ HeldInValidate
      /\ "deleteSync" \notin started /\ "clone" \notin started
      /\ pc = "Failed" => err.kind \in {"NoTags", "Modified", "Untracked"}

C1_Witness ==
    /\ srcModified = {} /\ srcUntracked # {}
    /\ pc = "Failed" /\ err.kind = "Untracked" /\ ~Running

\* C2 as stated: whenever a requested tag exists in the source repository,
\* Validate fails with an error naming exactly the intersection.
C2_Original ==
    (Requested \cap srcTags # {} /\ pc \notin ValidatePc) =>
      /\ pc = "Failed" /\ err.kind = "TagsExist"
      /\ Range(err.names) = Requested \cap srcTags

\* C2, amended: whenever a requested tag exists in the source repository the
\* run is rejected in Validate; when the working tree is clean and the
\* package has a version, the error names exactly the intersection, each
\* tag once.
C2_TagCollisionNamesIntersection ==
    Requested \cap srcTags # {} =>
      /\ HeldInValidate
      /\ (pc = "Failed" /\ ~Dirty /\ HasVersion(srcVersion)) =>
           /\ err.kind = "TagsExist"
           /\ Range(err.names) = Requested \cap srcTags
           /\ Len(err.names) = Cardinality(Requested \cap srcTags)

C2_Witness ==
    /\ pc = "Failed" /\ err.kind = "TagsExist"
    /\ Len(err.names) = 1 /\ Cardinality(Requested) = 2

\* C3: a dry run never launches a push; when it has passed every step up to
\* Tag it stops in DryRunStop with every requested tag in the clone, no
\* error, origin untouched, and exit status 0.
C3_DryRunNoPush ==
    argv.dryRun =>
      /\ pushCount = 0 /\ "push" \notin started
      /\ pc \notin {"pushTags", "awaitPush", "Done"}
      /\ originTags = originAtStart
      /\ pc = "DryRunStop" =>
           /\ Requested \subseteq TagsOf(cloneTags)
           /\ err = NoErr
           /\ (~Running /\ checkoutState = "ok") => exitCode = 0

C3_Witness ==
    /\ argv.dryRun /\ pc = "DryRunStop" /\ Cardinality(Requested) = 2
    /\ ~Running /\ exitCode = 0

C5_FailureAborts ==
    [][StepFailed => started' = started]_vars

\* C6 as stated: in a run without dry-run that reaches Done, origin holds
\* every requested tag at the publish commit of this run, and no other tag
\* of origin has changed.
C6_PushedTagsAtPublishCommit ==
    (pc = "Done" /\ ~argv.dryRun) =>
      /\ publishCommit = PubRev(run)
      /\ \A t \in Requested : originTags[t] = publishCommit
      /\ \A t \in AllTags \ Requested : originTags[t] = originAtStart[t]
      /\ Requested = Range(argv.tag) \cup
                     (IF argv.tagVersion THEN {"v1.2.3"} ELSE {})

\* C7 as stated: a run that names an explicit tag an earlier run published
\* (created and pushed, ending in Done with exit status 0 and no failed
\* step) does not get past Validate.
C7_RerunFailsInValidate ==
    Range(argv.tag) \cap publishedTags # {} => HeldInValidate

\* C8 as stated: the steps in the clone take effect in order, none starting
\* while its predecessor is in flight.
C8_StepsInOrder ==
    /\ pc \in {"checkoutBranch", "deleteTrackedFiles"} =>
         checkoutState \in {"ok", "failed"}
    /\ "branch" \in started => "checkoutCommit" \in started
    /\ "delete" \in started => "branch" \in started
    /\ "publish" \in started =>
         "delete" \in started /\ (Running => ~InFlight(delState))
    /\ "stage" \in started => "publish" \in started
    /\ "commit" \in started => "stage" \in started
    /\ "tag" \in started => "commit" \in started
    /\ "push" \in started =>
         "tag" \in started /\ (Running => ~InFlight(tagState))

\* C9 as stated: the exit status is 0 exactly when the run ended in Done or
\* DryRunStop with no failed step.
C9_ExitStatus ==
    ~Running =>
      (exitCode = 0 <=> (pc \in {"Done", "DryRunStop"} /\ ~StepFailed))

\* C10: with an empty requested tag set, or a package without a version,
\* the run is rejected in Validate with a validation error, and nothing has
\* been mutated: the destination directory is not deleted, and there is no
\* clone, commit, tag or push.
C10_InvalidConfigNoMutation ==
    (Len(BuildTags(argv, srcVersion)) = 0 \/ ~HasVersion(srcVersion)) =>
      /\ HeldInValidate
      /\ NothingMutated
      /\ pc = "Failed" =>
           err.kind \in {"NoTags", "Modified", "Untracked", "NoVersion"}

C10_Witness ==
    /\ ~Dirty /\ ~HasVersion(srcVersion) /\ argv.tagVersion
    /\ pc = "Failed" /\ err.kind = "NoVersion" /\ ~Running
    /\ NothingMutated

\* ==================================================== the library classes
\* Validator, GitBranch and spawn, each called on its own.  A text is a
\* sequence of one-character strings.

\* The number of functions given to a Validator.
MaxPreds == 2
\* The number of lines "git branch -a" prints.
MaxLines == 2

\* \w of a regular expression
WordChars == {
    "a", "b", "c", "d", "e", "f", "g", "h", "i", "j", "k", "l", "m",
     "n", "o", "p", "q", "r", "s", "t", "u", "v", "w", "x", "y", "z",
     "A", "B", "C", "D", "E", "F", "G", "H", "I", "J", "K", "L", "M",
     "N", "O", "P", "Q", "R", "S", "T", "U", "V", "W", "X", "Y", "Z",
     "0", "1", "2", "3", "4", "5", "6", "7", "8", "9", "_"}
\* \s of a regular expression, and what String.trim removes
WhiteSpace == {" ", "\t", "\n", "\r"}
\* [\w/] of the HEAD filter (line 166)
HeadClass == WordChars \cup {"/"}
\* [\w.-] of strParserRegex (line 79)
RemoteClass == WordChars \cup {".", "-"}
\* what "." of a regular expression does not match
LineTerminators == {"\n", "\r"}

AllIn(s, S) == \A i \in 1..Len(s) : s[i] \in S

\* String.prototype.trim
RECURSIVE TrimStart(_)
TrimStart(s) ==
    IF s # <<>> /\ Head(s) \in WhiteSpace THEN TrimStart(Tail(s)) ELSE s
RECURSIVE TrimEnd(_)
TrimEnd(s) ==
    IF s # <<>> /\ s[Len(s)] \in WhiteSpace
    THEN TrimEnd(SubSeq(s, 1, Len(s) - 1)) ELSE s
Trim(s) == TrimEnd(TrimStart(s))

\* stdout.split("\n"): a text without "\n" is one line, the empty text too.
RECURSIVE SplitLines(_)
SplitLines(s) ==
    IF \E i \in 1..Len(s) : s[i] = "\n"
    THEN LET i == CHOOSE i \in 1..Len(s) :
                    s[i] = "\n" /\ \A j \in 1..(i - 1) : s[j] # "\n"
         IN <<SubSeq(s, 1, i - 1)>> \o SplitLines(SubSeq(s, i + 1, Len(s)))
    ELSE <<s>>

\* curLine.replace(/^\*\s+/, ""): the "*" of the current branch and the
\* white space after it are removed.
StripCurrentMarker(s) ==
    IF Len(s) >= 2 /\ s[1] = "*" /\ s[2] \in WhiteSpace
    THEN TrimStart(Tail(s)) ELSE s

SlashHEAD == <<"/", "H", "E", "A", "D">>
Arrow == <<"-", ">">>
\* /^[\w/]+\/HEAD\s+->\s+[\w/]+$/.test(curLine)
IsHeadLine(s) ==
    \E a \in 1..Len(s) :
      /\ a + 5 <= Len(s)
      /\ AllIn(SubSeq(s, 1, a), HeadClass)
      /\ SubSeq(s, a + 1, a + 5) = SlashHEAD
      /\ \E b \in (a + 6)..Len(s) :
           /\ b + 2 <= Len(s)
           /\ AllIn(SubSeq(s, a + 6, b), WhiteSpace)
           /\ SubSeq(s, b + 1, b + 2) = Arrow
           /\ \E c \in (b + 3)..(Len(s) - 1) :
                /\ AllIn(SubSeq(s, b + 3, c), WhiteSpace)
                /\ AllIn(SubSeq(s, c + 1, Len(s)), HeadClass)

\* A capture group of a match: undefined, or the text it matched.
Undefined == [defined |-> FALSE]
Text(t) == [defined |-> TRUE, text |-> t]

RemotesSlash == <<"r", "e", "m", "o", "t", "e", "s", "/">>
\* The length of the longest run of characters of class S in s from index i.
RECURSIVE RunLength(_, _, _)
RunLength(s, i, S) ==
    IF i <= Len(s) /\ s[i] \in S THEN 1 + RunLength(s, i + 1, S) ELSE 0

\* GitBranch.strParserRegex.exec(longName): /^(remotes\/([\w.-]+)\/)?(.*)$/
\* The optional group takes part only when "remotes/" is followed by a run
\* of [\w.-] and a "/"; the rest of the line is group 3.  No match (null) when
\* the rest holds a line terminator.
StrParserExec(s) ==
    LET p == Len(RemotesSlash)
        k == RunLength(s, p + 1, RemoteClass)
        grouped == /\ Len(s) >= p /\ SubSeq(s, 1, p) = RemotesSlash
                   /\ k >= 1
                   /\ p + k + 1 <= Len(s) /\ s[p + k + 1] = "/"
        rest == IF grouped THEN SubSeq(s, p + k + 2, Len(s)) ELSE s
    IN [matched |-> \A i \in 1..Len(rest) : rest[i] \notin LineTerminators,
        group2 |-> IF grouped THEN Text(SubSeq(s, p + 1, p + k))
                   ELSE Undefined,
        group3 |-> rest]

\* new GitBranch(repo, branchName, remoteName): remoteName || undefined
NewGitBranch(branchName, remoteName) ==
    [name |-> branchName,
     remoteName |-> IF remoteName.defined /\ remoteName.text # <<>>
                    THEN remoteName ELSE Undefined]

\* The lines enumerateGitRepoBranches keeps (lines 160-168).
KeptLines(stdout) ==
    LET lines == SplitLines(stdout)
        trimmed == [i \in 1..Len(lines) |-> Trim(lines[i])]
        unmarked == [i \in 1..Len(trimmed) |-> StripCurrentMarker(trimmed[i])]
        kept == SelectSeq(unmarked, LAMBDA l : ~IsHeadLine(l))
    IN [i \in 1..Len(kept) |-> Trim(kept[i])]

\* The GitBranch made of one kept line (lines 170-185).
BranchOfLine(longName) ==
    LET regexResults == StrParserExec(longName)
    IN NewGitBranch(regexResults.group3, regexResults.group2)

\* _.every(validationResults) taken as "some result is true".
Every_Some(results) ==
    results = <<>> \/ \E i \in 1..Len(results) : results[i] = TRUE

\* _.every(validationResults)
Every(results) == \A i \in 1..Len(results) : results[i] = TRUE

\* ------------------------------------------------- promises and subprocesses

NotCalled == [state |-> "idle"]
Pending == [state |-> "pending"]
Fulfilled(v) == [state |-> "fulfilled", value |-> v]
Rejected(e) == [state |-> "rejected", reason |-> e]
\* A call that ended by throwing to its caller instead of returning a promise.
Threw(e) == [state |-> "threw", reason |-> e]
Settled(p) == p.state \in {"fulfilled", "rejected"}

\* What a subprocess does: whether it could be started, its exit status and
\* what it wrote.
NoProc == [started |-> FALSE, status |-> 0, stdout |-> <<>>, stderr |-> <<>>]
Exited(code, out, errText) ==
    [started |-> TRUE, status |-> code, stdout |-> out, stderr |-> errText]
\* The command could not be started (not found).
CannotStart == [started |-> FALSE, status |-> 0, stdout |-> <<>>,
                stderr |-> <<"E", "N", "O", "E", "N", "T">>]
\* The non-zero exit code spawn reports for a command that did not start.
SpawnFailedCode == 255

\* spawn ignoring the exit status.
SpawnSettle_IgnoresStatus(proc) == Fulfilled(Trim(proc.stdout))

\* spawn(cmd, args, cwd) when the subprocess has ended (its source is not part
\* of the files modelled; from its contract): the trimmed stdout on exit
\* status 0, else an error with the exit code and stderr.
SpawnSettle(proc) ==
    IF ~proc.started
    THEN Rejected([exitCode |-> SpawnFailedCode, stderr |-> proc.stderr])
    ELSE IF proc.status = 0
    THEN Fulfilled(Trim(proc.stdout))
    ELSE Rejected([exitCode |-> proc.status, stderr |-> proc.stderr])

\* ------------------------------------------------------------------ inputs

\* The functions a Validator is given, by what one does when invoked: return
\* a boolean, throw, or return a promise that is fulfilled with a boolean or
\* rejected.
PredKinds == {"syncTrue", "syncFalse", "syncThrow",
              "asyncTrue", "asyncFalse", "asyncReject"}
PredLists == UNION {[1..n -> PredKinds] : n \in 0..MaxPreds}

\* Branch names, and those "git check-ref-format --allow-onelevel" accepts.
GitValidNames == {<<"m">>, <<"f", "/", "x">>}
BranchNames == GitValidNames \cup {<<"a", ".", ".", "b">>, <<"x", ".", "l", "o", "c", "k">>}
CheckRefFormat(name) ==
    IF name \in GitValidNames THEN Exited(0, <<>>, <<>>)
    ELSE Exited(1, <<>>, <<>>)
RemoteArgs == {Undefined, Text(<<"o">>)}

\* The remotes and branches of a listing; git accepts each of these names.
Remotes == {<<"o">>, <<"a", "-", "b">>, <<"a", "+", "b">>}
Branches == {<<"m">>, <<"f", "/", "x">>, <<"v", ".", "2">>}
\* One line of "git branch -a": a local branch, the current branch, a
\* remote-tracking branch, or the symbolic reference of a remote's HEAD.
ListingLines ==
    {[form |-> f, remote |-> <<>>, branch |-> b] :
        f \in {"local", "current"}, b \in Branches}
    \cup {[form |-> f, remote |-> r, branch |-> b] :
        f \in {"remote", "head"}, r \in Remotes, b \in Branches}
Indent == <<" ", " ">>
CurrentMarker == <<"*", " ">>
HeadArrow == <<"/", "H", "E", "A", "D", " ", "-", ">", " ">>
LineText(l) ==
    CASE l.form = "local" -> Indent \o l.branch
      [] l.form = "current" -> CurrentMarker \o l.branch
      [] l.form = "remote" ->
           Indent \o RemotesSlash \o l.remote \o <<"/">> \o l.branch
      [] l.form = "head" ->
           Indent \o RemotesSlash \o l.remote \o HeadArrow
                  \o l.remote \o <<"/">> \o l.branch
\* The text git writes for a listing: one line each, each ended by "\n".
RECURSIVE Render(_)
Render(listing) ==
    IF listing = <<>> THEN <<>>
    ELSE LineText(Head(listing)) \o <<"\n">> \o Render(Tail(listing))
\* git lists the local branches first and marks at most one as current.
IsLocalForm(l) == l.form \in {"local", "current"}
WellFormed(listing) ==
    /\ \A i, j \in 1..Len(listing) :
         (i < j /\ IsLocalForm(listing[j])) => IsLocalForm(listing[i])
    /\ Cardinality({i \in 1..Len(listing) : listing[i].form = "current"}) <= 1
Listings ==
    {l \in UNION {[1..n -> ListingLines] : n \in 0..MaxLines} : WellFormed(l)}
NotARepository == <<"f", "a", "t", "a", "l">>
\* What "git branch -a" can do: print a listing, fail, or not start.
BranchListProcs(listing) ==
    {Exited(0, Render(listing), <<>>)}
    \cup (IF listing = <<>>
          THEN {Exited(128, <<>>, NotARepository), CannotStart} ELSE {})
\* What a command run through spawn on its own can do.
SpawnProcs ==
    {Exited(c, out, e) : c \in {0, 1},
                         out \in {<<>>, <<"o", "k", "\n">>, <<" ", "a", " ", "b", " ", "\n">>},
                         e \in {<<>>, <<"e", "r", "r">>}}
    \cup {CannotStart}

\* A call of the library before it starts.
IdleCall(o) ==
    [op |-> o, funcs |-> <<>>, promises |-> <<>>, valid |-> NotCalled,
     branchName |-> <<>>, remoteArg |-> Undefined, listing |-> <<>>,
     proc |-> NoProc, spawned |-> NotCalled, nameValid |-> NotCalled,
     result |-> NotCalled]
LibCalls ==
    {[IdleCall("isValid") EXCEPT !.funcs = f] : f \in PredLists}
    \cup {[IdleCall("spawn") EXCEPT !.proc = p] : p \in SpawnProcs}
    \cup UNION {{[IdleCall("isValidBranchName") EXCEPT
                       !.branchName = n, !.proc = p] :
                    p \in {CheckRefFormat(n), CannotStart}} : n \in BranchNames}
    \cup UNION {{[IdleCall("create") EXCEPT
                       !.branchName = n, !.remoteArg = r, !.proc = p] :
                    r \in RemoteArgs, p \in {CheckRefFormat(n), CannotStart}} :
                 n \in BranchNames}
    \cup UNION {{[IdleCall("enumerate") EXCEPT !.listing = l, !.proc = p] :
                    p \in BranchListProcs(l)} : l \in Listings}

\* ----------------------------------------------------------------- actions

\* Every variable of the workflow: a library call leaves them alone.
wfVars == <<srcModified, srcUntracked, srcVersion, srcTags, srcHead,
            unhandledRejections, originAtStart, publishedTags, originTags,
            run, argv, pc, tags, err, devCommitHash, started, cloneVars,
            asyncVars, exitCode>>

\* curValidatorFunc(subject) wrapped by Promise.resolve (lines 47-49): a
\* boolean gives a fulfilled promise, a promise is taken as it is.
Invoke(kind) ==
    CASE kind = "syncTrue" -> Fulfilled(TRUE)
      [] kind = "syncFalse" -> Fulfilled(FALSE)
      [] OTHER -> Pending

\* The synchronous part of isValid (lines 46-50): _.map invokes the functions
\* in order; a function that throws ends the map and isValid with its error,
\* after the functions before it were invoked.
IsValidStart(funcs) ==
    IF \E i \in 1..Len(funcs) : funcs[i] = "syncThrow"
    THEN LET k == CHOOSE i \in 1..Len(funcs) :
                    /\ funcs[i] = "syncThrow"
                    /\ \A j \in 1..(i - 1) : funcs[j] # "syncThrow"
         IN [promises |-> [i \in 1..(k - 1) |-> Invoke(funcs[i])],
             valid |-> Threw("PredicateError")]
    ELSE [promises |-> [i \in 1..Len(funcs) |-> Invoke(funcs[i])],
          valid |-> Pending]

\* Promise.all(promises) has settled: one promise rejected, or all fulfilled.
AllSettled(promises) ==
    \/ \E i \in 1..Len(promises) : promises[i].state = "rejected"
    \/ \A i \in 1..Len(promises) : promises[i].state = "fulfilled"
\* .then(_.every) and .catch(() => false) of lines 52-60.
IsValidResult(promises) ==
    IF \E i \in 1..Len(promises) : promises[i].state = "rejected"
    THEN FALSE
    ELSE Every([i \in 1..Len(promises) |-> promises[i].value])

\* isValidBranchName answering true whatever the subprocess did.
IsValidBranchNameResult_AlwaysTrue(spawned) == TRUE

\* .then(() => true) and .catch(() => false) of lines 115-123.
IsValidBranchNameResult(spawned) ==
    IF spawned.state = "fulfilled" THEN TRUE ELSE FALSE

\* create constructing the branch whatever the validator said.
CreateResult_SkipsValidation(valid, branchName, remoteName) ==
    Fulfilled(NewGitBranch(branchName, remoteName))

\* GitBranch.create after the validator has answered (lines 140-145).
CreateResult(valid, branchName, remoteName) ==
    IF ~valid THEN Rejected("InvalidBranchName")
    ELSE Fulfilled(NewGitBranch(branchName, remoteName))

\* enumerateGitRepoBranches after spawn has settled (lines 158-186).
EnumerateResult(spawned) ==
    IF spawned.state = "rejected" THEN Rejected(spawned.reason)
    ELSE LET kept == KeptLines(spawned.value)
         IN IF \E i \in 1..Len(kept) : ~StrParserExec(kept[i]).matched
            THEN Rejected("ParseError")
            ELSE Fulfilled([i \in 1..Len(kept) |-> BranchOfLine(kept[i])])

\* validator.isValid(subject) is called.
ValidatorIsValid ==
    /\ lib.op = "isValid" /\ lib.valid = NotCalled
    /\ lib' = [lib EXCEPT !.promises = IsValidStart(lib.funcs).promises,
                          !.valid = IsValidStart(lib.funcs).valid]
    /\ UNCHANGED wfVars

\* The promise an asynchronous function returned settles.  The promise of
\* isValidBranchName settles as that call does.
PredicateSettles(i) ==
    /\ i \in DOMAIN lib.promises
    /\ lib.promises[i] = Pending
    /\ lib.funcs[i] = "isValidBranchName" => Settled(lib.nameValid)
    /\ lib' = [lib EXCEPT !.promises[i] =
                 CASE lib.funcs[i] = "asyncTrue" -> Fulfilled(TRUE)
                   [] lib.funcs[i] = "asyncFalse" -> Fulfilled(FALSE)
                   [] lib.funcs[i] = "asyncReject" -> Rejected("PredicateError")
                   [] lib.funcs[i] = "isValidBranchName" -> lib.nameValid]
    /\ UNCHANGED wfVars

\* The promise isValid returned settles.
IsValidSettles ==
    /\ lib.valid = Pending
    /\ AllSettled(lib.promises)
    /\ lib' = [lib EXCEPT !.valid = Fulfilled(IsValidResult(lib.promises))]
    /\ UNCHANGED wfVars

\* spawn(cmd, args, cwd) is called on its own.
SpawnCall ==
    /\ lib.op = "spawn" /\ lib.spawned = NotCalled
    /\ lib' = [lib EXCEPT !.spawned = Pending]
    /\ UNCHANGED wfVars

\* The subprocess ends, or fails to start.
SpawnExit ==
    /\ lib.spawned = Pending
    /\ lib' = [lib EXCEPT !.spawned = SpawnSettle(lib.proc)]
    /\ UNCHANGED wfVars

\* GitBranch.isValidBranchName(branchName) is called on its own.
IsValidBranchName ==
    /\ lib.op = "isValidBranchName" /\ lib.nameValid = NotCalled
    /\ lib' = [lib EXCEPT !.spawned = Pending, !.nameValid = Pending]
    /\ UNCHANGED wfVars

\* The promise isValidBranchName returned settles.
IsValidBranchNameSettles ==
    /\ lib.nameValid = Pending
    /\ Settled(lib.spawned)
    /\ lib' = [lib EXCEPT !.nameValid =
                 Fulfilled(IsValidBranchNameResult(lib.spawned))]
    /\ UNCHANGED wfVars

\* GitBranch.create(repo, branchName, remoteName) is called (lines 139-140):
\* it runs to its await, through isValid and isValidBranchName to spawn.
Create ==
    /\ lib.op = "create" /\ lib.result = NotCalled
    /\ LET f == <<"isValidBranchName">> IN
         lib' = [lib EXCEPT !.funcs = f,
                            !.promises = IsValidStart(f).promises,
                            !.valid = IsValidStart(f).valid,
                            !.spawned = Pending,
                            !.nameValid = Pending,
                            !.result = Pending]
    /\ UNCHANGED wfVars

\* create resumes when the validator has answered.
CreateResumes ==
    /\ lib.op = "create" /\ lib.result = Pending
    /\ lib.valid.state = "fulfilled"
    /\ lib' = [lib EXCEPT !.result =
                 CreateResult(lib.valid.value, lib.branchName, lib.remoteArg)]
    /\ UNCHANGED wfVars

\* GitBranch.enumerateGitRepoBranches(repo) is called (line 158).
Enumerate ==
    /\ lib.op = "enumerate" /\ lib.result = NotCalled
    /\ lib' = [lib EXCEPT !.spawned = Pending, !.result = Pending]
    /\ UNCHANGED wfVars

\* enumerateGitRepoBranches resumes when spawn has settled.
EnumerateResumes ==
    /\ lib.op = "enumerate" /\ lib.result = Pending
    /\ Settled(lib.spawned)
    /\ lib' = [lib EXCEPT !.result = EnumerateResult(lib.spawned)]
    /\ UNCHANGED wfVars

\* One call of the library; the workflow is not running.
LibInit ==
    /\ srcModified = {}
    /\ srcUntracked = {}
    /\ srcVersion = "1.2.3"
    /\ srcTags = {}
    /\ srcHead = RevR
    /\ originTags = NoTagMap
    /\ originAtStart = originTags
    /\ publishedTags = {}
    /\ unhandledRejections = "throw"
    /\ run = 1
    /\ argv = [tag |-> <<>>, tagVersion |-> FALSE, dryRun |-> FALSE]
    /\ FreshRun
    /\ lib \in LibCalls

LibNext ==
    \/ ValidatorIsValid
    \/ \E i \in 1..MaxPreds : PredicateSettles(i)
    \/ IsValidSettles
    \/ SpawnCall
    \/ SpawnExit
    \/ IsValidBranchName
    \/ IsValidBranchNameSettles
    \/ Create
    \/ CreateResumes
    \/ Enumerate
    \/ EnumerateResumes

LibSpec == LibInit /\ [][LibNext]_vars

\* ---------------------------------------------------------- claims C11-C17

\* The functions that settle with a boolean.
BooleanKinds == {"syncTrue", "syncFalse", "asyncTrue", "asyncFalse"}
TrueKinds == {"syncTrue", "asyncTrue"}

\* C11: for a list of functions that all settle with a boolean (the empty list
\* included) isValid does not fail, and the boolean it resolves to is true
\* exactly when every function returned true.
C11_IsValidIsConjunction ==
    (lib.op = "isValid" /\ \A i \in 1..Len(lib.funcs) :
                              lib.funcs[i] \in BooleanKinds)
      => /\ lib.valid.state \in {"idle", "pending", "fulfilled"}
         /\ lib.valid.state = "fulfilled" =>
              (lib.valid.value = TRUE <=>
                 \A i \in 1..Len(lib.funcs) : lib.funcs[i] \in TrueKinds)

\* isValid resolved to true for a synchronous and an asynchronous function
\* that both returned true.
C11_Witness ==
    /\ lib.op = "isValid"
    /\ lib.funcs = <<"syncTrue", "asyncTrue">>
    /\ lib.valid = Fulfilled(TRUE)

\* C12 as stated: isValid never fails; no error reaches its caller, and when
\* a function failed (its promise rejected, or it threw when invoked) the
\* result isValid delivers is false.
C12_IsValidNeverFails ==
    lib.op = "isValid"
      => /\ lib.valid.state \in {"idle", "pending", "fulfilled"}
         /\ (/\ lib.valid.state = "fulfilled"
             /\ \E i \in 1..Len(lib.funcs) :
                  lib.funcs[i] \in {"syncThrow", "asyncReject"})
              => lib.valid.value = FALSE

C14_IsValidBranchNameTotal ==
    lib.op = "isValidBranchName"
      => /\ lib.nameValid.state \in {"idle", "pending", "fulfilled"}
         /\ lib.nameValid.state = "fulfilled" =>
              (lib.nameValid.value = TRUE <=>
                 (lib.proc.started /\ lib.proc.status = 0))

\* isValidBranchName resolved to false when git could not be started.
C14_Witness ==
    /\ lib.op = "isValidBranchName"
    /\ lib.proc = CannotStart
    /\ lib.nameValid = Fulfilled(FALSE)

\* A text that contains "->".
HasArrow(t) == \E i \in 1..(Len(t) - 1) : SubSeq(t, i, i + 1) = Arrow

\* C15 as stated: no GitBranch that enumeration returns was built from a line
\* "remotes/<remote>/HEAD -> <remote>/<branch>" (no name holds the arrow).
C15_HeadLinesDiscarded ==
    (lib.op = "enumerate" /\ lib.result.state = "fulfilled")
      => \A j \in 1..Len(lib.result.value) :
           ~HasArrow(lib.result.value[j].name)

StartsWith(t, prefix) ==
    Len(t) >= Len(prefix) /\ SubSeq(t, 1, Len(prefix)) = prefix

\* C16 as stated: a line of a local or the current branch <b> gives a
\* GitBranch named <b> without remote, a line remotes/<r>/<b> gives one named
\* <b> with remote <r>, and no name starts with "remotes/".
C16_LinesSplitIntoRemoteAndName ==
    (lib.op = "enumerate" /\ lib.result.state = "fulfilled")
      => /\ \A i \in 1..Len(lib.listing) :
              LET l == lib.listing[i] IN
                /\ IsLocalForm(l) =>
                     \E j \in DOMAIN lib.result.value : lib.result.value[j] =
                        [name |-> l.branch, remoteName |-> Undefined]
                /\ l.form = "remote" =>
                     \E j \in DOMAIN lib.result.value : lib.result.value[j] =
                        [name |-> l.branch, remoteName |-> Text(l.remote)]
         /\ \A j \in DOMAIN lib.result.value :
              ~StartsWith(lib.result.value[j].name, RemotesSlash)

\* C17: a spawn call that has ended resolved exactly when the subprocess
\* started and exited with status 0, with its stdout trimmed; otherwise it
\* failed with a non-zero exitCode and the stderr text of the subprocess.
C17_SpawnOutcomeByExitStatus ==
    (lib.op = "spawn" /\ Settled(lib.spawned))
      => /\ lib.spawned.state = "fulfilled" <=>
              (lib.proc.started /\ lib.proc.status = 0)
         /\ lib.spawned.state = "fulfilled" =>
              /\ lib.spawned.value = Trim(lib.proc.stdout)
              /\ \A i \in {1, Len(lib.spawned.value)} \cap
                          DOMAIN lib.spawned.value :
                   lib.spawned.value[i] \notin WhiteSpace
         /\ lib.spawned.state = "rejected" =>
              /\ lib.spawned.reason.exitCode # 0
              /\ lib.spawned.reason.stderr = lib.proc.stderr

\* spawn failed for a command that exited with status 1 and wrote to stderr.
C17_Witness ==
    /\ lib.op = "spawn"
    /\ lib.proc.started /\ lib.proc.status = 1 /\ lib.proc.stderr # <<>>
    /\ lib.spawned.state = "rejected"

\* ---------------------------------------------------------- claims C18-C20

\* C18 as stated: the completion message of a run that reaches Done holds the
\* revision of the publish commit and one install reference per requested
\* tag, each naming that tag.
C18_ReportNamesCommitAndTags ==
    pc = "Done" =>
      /\ report.installCommit = publishCommit
      /\ Range(report.installTags) = Requested
      /\ Len(report.installTags) = Cardinality(Requested)

\* C20 as stated: when Republish starts no file tracked before Purge is left
\* in the working tree, and the files of the publish commit are exactly the
\* files the packager wrote.
C20_CommitHoldsPackagedFiles ==
    /\ pc = "publish" => cloneFiles \cap TrackedFiles = {}
    /\ publishCommit # NoRev => commitFiles = PackFiles

\* C19: in the Push fan-out a failed push fails the run; a sibling push still
\* in flight can complete (it is not cancelled), and the tag of a completed
\* push stays on origin (it is not rolled back).
C19_PushFailureLeavesSiblings ==
    /\ (\E i \in DOMAIN pushState : pushState[i] = "failed")
         => (pc # "Done" /\ (pc = "Failed" \/ ~Running))
    /\ \A i \in DOMAIN pushState :
         /\ pushState[i] = "inflight" => ENABLED PushTagOk(i)
         /\ pushState[i] = "ok" => originTags[tags[i]] = cloneTags[tags[i]]

\* The run failed in the Push fan-out, every push has ended, and origin holds
\* one requested tag and lacks another: a partial subset.
C19_Witness ==
    /\ pc = "Failed" /\ err.at = "awaitPush"
    /\ \A i \in DOMAIN pushState : pushState[i] # "inflight"
    /\ \E i, j \in DOMAIN pushState :
         /\ pushState[i] = "ok" /\ pushState[j] = "failed"
         /\ originTags[tags[i]] = publishCommit
         /\ originTags[tags[i]] # originAtStart[tags[i]]
         /\ originTags[tags[j]] = NoRev

\* ---------------------------------------------------------- claims C21-C26

\* C21 as stated: the temporary branch is created with the clone's HEAD at
\* the revision of the source repository, and the publish commit is a direct
\* child of that revision.
C21_PublishCommitIsChildOfSource ==
    [][/\ (pc = "checkoutBranch" /\ pc' = "deleteTrackedFiles")
            => cloneHead = srcHead
       /\ publishCommit' # NoRev => commitParent' = srcHead]_vars

C23_TagListHasNoDuplicates ==
    "tag" \in started => Cardinality(Range(tags)) = Len(tags)

\* C24: every push operation issued names a requested tag, as a tag, and the
\* remote origin; there is one per entry of the tag list and no other.
C24_OnlyRequestedTagsPushed ==
    /\ \A p \in pushed :
         p.kind = "tag" /\ p.name \in Requested /\ p.remote = "origin"
    /\ "push" \in started =>
         pushed = {PushTagOp(t) : t \in Requested}
    /\ "push" \notin started => pushed = {}

\* A run on the temporary branch that has pushed its two tags and is done.
C24_Witness ==
    /\ pc = "Done"
    /\ Cardinality(Requested) = 2
    /\ Cardinality(pushed) = 2
    /\ "branch" \in started

C26_OneBranchPerLine ==
    (lib.op = "enumerate" /\ Settled(lib.result)
       /\ lib.spawned.state = "fulfilled")
      => /\ lib.result.state = "fulfilled"
         /\ Len(lib.result.value) =
              Cardinality({i \in 1..Len(lib.listing) :
                             lib.listing[i].form # "head"})
         /\ \A j \in 1..Len(lib.result.value) :
              lib.result.value[j].name # <<>>

====
